---- MODULE Spec2Model ----
(***************************************************************************)
(* Model of the inbound sync run of nsc-automate (src/src/get_nsc_files.py *)
(* main): the watermark marker file, the audit log, the per-file loop with *)
(* its process-wide field variables (globals()), the rename-rule loop, the *)
(* download and the import dispatch; of the outbound run                   *)
(* (src/src/send_nsc_files.py main): send directory, upload, archive; and  *)
(* of the configuration merge (src/src/support_scripts.py merge_dicts).    *)
(*                                                                         *)
(* A file name is the sequence of its tokens (the text between the "_"     *)
(* separators, the last token being the extension after the final ".").    *)
(* A value of a field variable is a sequence of tokens as well, so that a  *)
(* rendered template and a raw remote name can be compared.                *)
(* Every remote entry carries a modification time (spec section 3:         *)
(* modifiedAt is not optional).                                            *)
(***************************************************************************)
EXTENDS Integers, Sequences, FiniteSets, TLC

\* ---------------------------------------------------------------- bounds
MaxFiles == 2       \* entries in the remote listing
MaxTime  == 2       \* modification times are 1..MaxTime
MaxRules == 2       \* rules in the rename catalog
MaxRuns  == 2       \* runs (inbound and outbound) in one behaviour
MaxSendTime == 1    \* modification times of files in the send directory
MaxRulesBoth == 1   \* rules in the catalog where both scripts run

VARIABLES
    cfg,                    \* cfg["nsc"]["rename"]: the ordered rule catalog
    remote,                 \* the remote receive directory: sequence of entries
    marker,                 \* "__Latest File Date": <<>> (absent) or <<mtime>>
    log,                    \* the audit log file: <<>> (absent) or rows, header first
    pc,                     \* "idle" | "processing" | "failed"
    runs,                   \* runs started so far
    prev,                   \* how the previous run ended and the listing it saw
    i,                      \* position of the for loop in the listing
    latest_file_time,       \* watermark read at run start: <<>> or <<t>>
    new_latest_file_time,   \* running maximum of the batch: <<>> or <<t>>
    g,                      \* the field variables held in globals()
    added_base,             \* keys recorded in added_base
    lfp,                    \* globals()["local_file_path"]: <<>> or <<path>>
    last,                   \* what the last loop iteration did (observation)
    writes,                 \* times this run wrote the marker (observation)
    batch,                  \* entries this run has downloaded so far (observation)
    session,                \* the transport of the run: "none" | "open" | "closed"
    outbox,                 \* files in the local send directory
    archive,                \* names in the local archive directory
    spc,                    \* outbound run: "idle" | "sending" | "failed"
    sends,                  \* outbound runs started so far
    si,                     \* position of the outbound for loop
    files_to_send,          \* the outbound run's snapshot of the outbox
    slast,                  \* what the last outbound step did (observation)
    cfg1,                   \* merge_dicts: the earlier configuration
    cfg2,                   \* merge_dicts: the later configuration
    merged                  \* merge_dicts: <<>> (not called) or <<its outcome>>

inboundvars == <<cfg, remote, marker, pc, runs, prev, i, latest_file_time,
                 new_latest_file_time, g, added_base, lfp, last, writes, batch>>

sendvars == <<outbox, archive, spc, sends, si, files_to_send, slast>>

mergevars == <<cfg1, cfg2, merged>>

vars == <<inboundvars, log, session, sendvars, mergevars>>

\* ------------------------------------------------------------ file names
\* Remote names used as inputs. The grammar is
\* schoolcode_idx_TYPE_MODE_MMDDYYYYHHMMSS_fn.ext
F_DETL_SE == <<"00112233", "000001", "DETLRPT", "SE", "08152024101500", "fall2024", "submitted", "csv">>
F_AGGR_SE == <<"00112233", "000002", "AGGRRPT", "SE", "08152024101500", "report", "csv">>
F_DETL_DA == <<"00112233", "000003", "DETLRPT", "DA", "08152024101500", "report", "csv">>
F_BADTIME == <<"00112233", "000004", "DETLRPT", "SE", "13152024101500", "report", "csv">>
F_README  == <<"readme", "txt">>

FileNames == {F_DETL_SE, F_AGGR_SE, F_DETL_DA, F_BADTIME, F_README}

\* Tokens made of exactly fourteen digits, with the month they start with.
Digits14 == {"08152024101500", "13152024101500"}

StampMonth(tok) == IF tok = "08152024101500" THEN 8 ELSE 13

\* datetime.strptime(tok, "%m%d%Y%H%M%S") succeeds (else ValueError).
strptime_ok(tok) == StampMonth(tok) \in 1..12

BaseKeys == {"schoolcode", "idx", "nsctype", "nscmode", "subdatetime", "fn", "ext"}

Max(S) == CHOOSE x \in S : \A y \in S : y <= x

\* Positions the 14-digit group can take: four groups before it, fn and ext after.
StampPositions(file_name) ==
    {k \in 5..(Len(file_name) - 2) : file_name[k] \in Digits14}

\* re.match(pattern, file_name) of the fixed grammar.
GrammarMatch(file_name) == StampPositions(file_name) # {}

\* match.groupdict(): the leading (.+) is greedy, so the last stamp position wins.
named_groups(file_name) ==
    LET k == Max(StampPositions(file_name))
        n == Len(file_name)
    IN  [key \in BaseKeys |->
            CASE key = "schoolcode"  -> SubSeq(file_name, 1, k - 4)
              [] key = "idx"         -> <<file_name[k - 3]>>
              [] key = "nsctype"     -> <<file_name[k - 2]>>
              [] key = "nscmode"     -> <<file_name[k - 1]>>
              [] key = "subdatetime" -> <<file_name[k]>>
              [] key = "fn"          -> SubSeq(file_name, k + 1, n - 1)
              [] OTHER               -> <<file_name[n]>>]

\* ----------------------------------------------------------- rule catalog
ImportType == "DETLRPT"         \* cfg["nsc"]["import"]["type"]

NoPattern == [kind |-> "none", a |-> "", b |-> ""]
P_Any     == [kind |-> "any", a |-> "", b |-> ""]                \* .*
P_X       == [kind |-> "lit", a |-> "X", b |-> ""]               \* ^X
P_Term    == [kind |-> "split", a |-> "term", b |-> "submitted"] \* (?P<term>[^_]+)_(?P<submitted>.*)

Ref(key) == [ref |-> TRUE, v |-> key]
Lit(tok) == [ref |-> FALSE, v |-> tok]

\* mode SE, no pattern
R_A == [name |-> "A", has_mode |-> TRUE, mode |-> "SE", has_pattern |-> FALSE,
        pattern |-> NoPattern,
        replace |-> <<Lit("A"), Ref("nsctype"), Ref("fn"), Ref("ext")>>,
        import |-> FALSE]
\* mode SE, pattern .*
R_B == [name |-> "B", has_mode |-> TRUE, mode |-> "SE", has_pattern |-> TRUE,
        pattern |-> P_Any,
        replace |-> <<Lit("B"), Ref("nsctype"), Ref("fn"), Ref("ext")>>,
        import |-> TRUE]
\* mode SE, pattern ^X
R_X == [name |-> "X", has_mode |-> TRUE, mode |-> "SE", has_pattern |-> TRUE,
        pattern |-> P_X,
        replace |-> <<Lit("X"), Ref("fn"), Ref("ext")>>,
        import |-> TRUE]
\* mode SE, pattern with named groups used by the template
R_T == [name |-> "T", has_mode |-> TRUE, mode |-> "SE", has_pattern |-> TRUE,
        pattern |-> P_Term,
        replace |-> <<Ref("term"), Ref("nsctype"), Ref("nscmode"), Ref("submitted"), Ref("ext")>>,
        import |-> TRUE]
\* no mode filter, no pattern
R_N == [name |-> "N", has_mode |-> FALSE, mode |-> "", has_pattern |-> FALSE,
        pattern |-> NoPattern,
        replace |-> <<Lit("N"), Ref("fn"), Ref("ext")>>,
        import |-> FALSE]

RulePool == {R_A, R_B, R_X, R_T, R_N}

\* Rule names are the keys of a mapping: no name occurs twice.
Catalogs ==
    {c \in UNION {[1..n -> RulePool] : n \in 0..MaxRules} :
        \A x, y \in 1..Len(c) : x # y => c[x].name # c[y].name}

\* A directory listing: no file name occurs twice.
Entries == [filename : FileNames, st_mtime : 1..MaxTime]
Listings ==
    {l \in UNION {[1..n -> Entries] : n \in 0..MaxFiles} :
        \A x, y \in 1..Len(l) : x # y => l[x].filename # l[y].filename}

\* ------------------------------------------------------- pure helpers
EmptyG == [key \in {} |-> <<>>]

Restrict(f, D) == [key \in D |-> f[key]]

Override(f, h) ==
    [key \in (DOMAIN f) \cup (DOMAIN h) |-> IF key \in DOMAIN h THEN h[key] ELSE f[key]]

\* re.match(rule pattern, fn): whether it matches, and its groupdict().
re_match(pattern, fn) ==
    CASE pattern.kind = "any"   -> [ok |-> TRUE, groups |-> EmptyG]
      [] pattern.kind = "lit"   -> [ok |-> Len(fn) >= 1 /\ fn[1] = pattern.a,
                                    groups |-> EmptyG]
      [] pattern.kind = "split" ->
            IF Len(fn) >= 2
            THEN [ok |-> TRUE,
                  groups |-> [key \in {pattern.a, pattern.b} |->
                                 IF key = pattern.a THEN <<fn[1]>> ELSE Tail(fn)]]
            ELSE [ok |-> FALSE, groups |-> EmptyG]
      [] OTHER                  -> [ok |-> FALSE, groups |-> EmptyG]

\* Keys a template refers to.
TemplateKeys(replace) == {replace[x].v : x \in {y \in 1..Len(replace) : replace[y].ref}}

\* replace.format(**globals())
RECURSIVE format(_, _)
format(replace, fields) ==
    IF replace = <<>> THEN <<>>
    ELSE (IF Head(replace).ref THEN fields[Head(replace).v] ELSE <<Head(replace).v>>)
         \o format(Tail(replace), fields)

local_receive_path == "receive"     \* cfg["nsc"]["local"]["receive_path"]

\* Path(local_receive_path) / local_file_name
LocalPath(local_file_name) == [dir |-> local_receive_path, name |-> local_file_name]

\* ------------------------------------------------ the per-file loop body
\* Variants of the skip test with the comparison turned round or made strict.
NotNewer_Reversed(latest, st_mtime) == latest # <<>> /\ st_mtime >= latest[1]

NotNewer_Strict(latest, st_mtime) == latest # <<>> /\ st_mtime < latest[1]

\* Variant of the filter that passes over everything when there is no watermark.
NotNewer_NoneSkips(latest, st_mtime) == latest = <<>> \/ st_mtime <= latest[1]

\* Lines 146-152: "Skip files that are not newer than the latest file".
NotNewer(latest, st_mtime) == latest # <<>> /\ st_mtime <= latest[1]

\* Lines 253-257: the running maximum of the batch.
update_latest(new_latest, st_mtime) ==
    IF new_latest = <<>> \/ st_mtime > new_latest[1] THEN <<st_mtime>> ELSE new_latest

\* State of the rename loop: the field variables, the keys added by the last
\* pattern match, local_file_path, import_cmd, the rules whose template was
\* handed to format(), the exception raised ("" for none), and added_base.
LoopState(fields, added, path, import_cmd, rendered, err) ==
    [g |-> fields, added |-> added, lfp |-> path, import_cmd |-> import_cmd,
     rendered |-> rendered, err |-> err, base |-> {}]

Raise(s, err) == [s EXCEPT !.err = err]

\* Lines 228-240: set local_file_path, then decide the import command.
rename_tail(rule, s, fields, added, local_file_name, rendered) ==
    IF "nsctype" \notin DOMAIN fields
    THEN Raise(s, "KeyError")
    ELSE LoopState(fields, added, <<LocalPath(local_file_name)>>,
                   IF fields["nsctype"] = <<ImportType>> /\ rule.import
                   THEN <<[entry |-> rule.name, fn |-> LocalPath(local_file_name)]>>
                   ELSE s.import_cmd,
                   rendered, "")

\* Lines 195-240: one iteration of "for rename_entry in cfg[nsc][rename]".
rename_iteration(rule, file_name, s) ==
    LET fields0 == Restrict(s.g, (DOMAIN s.g) \ s.added)      \* lines 197-201
    IN  IF rule.has_mode /\ "nscmode" \notin DOMAIN fields0
        THEN Raise(s, "KeyError")                             \* line 204
        ELSE IF rule.has_mode /\ fields0["nscmode"] = <<rule.mode>>
        THEN IF rule.has_pattern /\ "fn" \notin DOMAIN fields0
             THEN Raise(s, "KeyError")                        \* line 207
             ELSE LET m == IF rule.has_pattern
                           THEN re_match(rule.pattern, fields0["fn"])
                           ELSE [ok |-> FALSE, groups |-> EmptyG]
                      fields1 == IF m.ok THEN Override(fields0, m.groups) ELSE fields0
                      added1  == IF m.ok THEN DOMAIN m.groups ELSE {}
                      rendered1 == Append(s.rendered, rule.name)
                  IN  IF ~(TemplateKeys(rule.replace) \subseteq DOMAIN fields1)
                      THEN [s EXCEPT !.err = "KeyError", !.rendered = rendered1]  \* line 221
                      ELSE rename_tail(rule, s, fields1, added1,
                                       format(rule.replace, fields1), rendered1)
        ELSE rename_tail(rule, s, fields0, {}, file_name, s.rendered)   \* line 226

RECURSIVE rename_loop(_, _, _)
rename_loop(catalog, file_name, s) ==
    IF catalog = <<>> \/ s.err # "" THEN s
    ELSE rename_loop(Tail(catalog), file_name, rename_iteration(Head(catalog), file_name, s))

\* Lines 156-243 up to the call of sftp.get: what the loop body leaves in the
\* process-wide variables for one retained entry, or the exception it raises.
resolve(catalog, file_name, fields, base, path) ==
    IF base # {} /\ ~(base \subseteq DOMAIN fields)
    THEN [LoopState(fields, {}, path, <<>>, <<>>, "KeyError") EXCEPT !.base = base]  \* line 159
    ELSE
    LET fields0 == Restrict(fields, (DOMAIN fields) \ base)       \* lines 156-160
        matched == GrammarMatch(file_name)                        \* line 180
        fields1 == IF matched THEN Override(fields0, named_groups(file_name)) ELSE fields0
        base1   == IF matched THEN base \cup BaseKeys ELSE base
    IN  IF matched /\ ~strptime_ok(fields1["subdatetime"][1])
        THEN [LoopState(fields1, {}, path, <<>>, <<>>, "ValueError") EXCEPT !.base = base1] \* line 189
        ELSE LET s == rename_loop(catalog, file_name,
                                  LoopState(fields1, {}, path, <<>>, <<>>, ""))
             IN  IF s.err = "" /\ s.lfp = <<>>
                 THEN [s EXCEPT !.err = "KeyError", !.base = base1]    \* line 243
                 ELSE [s EXCEPT !.base = base1]

\* ------------------------------------------------------------- audit log
HeaderRow == [nsc_file_name |-> <<"nsc_file_name">>,
              local_file_name |-> LocalPath(<<"local_file_name">>),
              file_date_time |-> 0, status |-> "status"]

\* Variant of the log set-up that writes a fresh file with the header each run.
open_log_Truncates(rows) == <<HeaderRow>>

\* Lines 94-99: the header is written when the log file does not exist.
open_log(rows) == IF rows = <<>> THEN <<HeaderRow>> ELSE rows

Row(file_name, path, file_datetime, status) ==
    [nsc_file_name |-> file_name, local_file_name |-> path,
     file_date_time |-> file_datetime, status |-> status]

\* Variant of the import step that logs Imported whatever the exit code.
import_rows_Unchecked(exit, file_name, path, file_datetime) ==
    <<Row(file_name, path, file_datetime, "Imported")>>

\* Lines 271-288: the rows the import step writes for its exit code.
import_rows(exit, file_name, path, file_datetime) ==
    IF exit = 0 THEN <<Row(file_name, path, file_datetime, "Imported")>> ELSE <<>>

Nothing == [file_name |-> <<>>, outcome |-> "none", rendered |-> <<>>,
            get |-> <<>>, import |-> <<>>]

NothingSent == [file_name |-> <<>>, outcome |-> "none"]

\* ---- outbound script (send_nsc_files.py)
S_ROSTER == <<"roster", "csv">>
S_REQUEST == <<"se", "request", "txt">>

SendNames == {S_ROSTER, S_REQUEST}

\* The files of the local send directory, in the order iterdir yields them.
SendFiles == [filename : SendNames, st_mtime : 1..MaxSendTime]

Outboxes ==
    {q \in UNION {[1..n -> SendFiles] : n \in 0..MaxFiles} :
        \A a, b \in 1..Len(q) : a # b => q[a].filename # q[b].filename}

send_path == "send"

\* Line 127: send_path + '/' + local_file.name.
RemotePath(name) == [dir |-> send_path, name |-> name]

\* Lines 103-107: the header row of the outbound script.
SendHeaderRow == [nsc_file_name |-> <<"file_name">>,
                  local_file_name |-> RemotePath(<<"remote_file">>),
                  file_date_time |-> 0, status |-> "status"]

open_send_log(rows) == IF rows = <<>> THEN <<SendHeaderRow>> ELSE rows

\* Lines 145-147: stem, run timestamp and suffix of the archived file; the
\* run timestamp is the number of the outbound run.
archive_file_name(name, run) ==
    [stem |-> SubSeq(name, 1, Len(name) - 1), stamp |-> run, suffix |-> name[Len(name)]]

Ended(status) == [status |-> status, listing |-> remote]

\* ---------------------------------------------------------------- Init
\* Nothing has run yet: no marker, no log, no process.
InboundFresh ==
    /\ marker = <<>>
    /\ log = <<>>
    /\ pc = "idle"
    /\ runs = 0
    /\ prev = [status |-> "none", listing |-> <<>>]
    /\ i = 1
    /\ latest_file_time = <<>>
    /\ new_latest_file_time = <<>>
    /\ g = EmptyG
    /\ added_base = {}
    /\ lfp = <<>>
    /\ last = Nothing
    /\ writes = 0
    /\ batch = <<>>
    /\ session = "none"

SendFresh ==
    /\ archive = {}
    /\ spc = "idle"
    /\ sends = 0
    /\ si = 1
    /\ files_to_send = <<>>
    /\ slast = NothingSent

\* The configuration merge is not part of the behaviour.
MergeUnused ==
    /\ cfg1 = EmptyG
    /\ cfg2 = EmptyG
    /\ merged = <<>>

InboundInit ==
    /\ cfg \in Catalogs
    /\ remote \in Listings
    /\ InboundFresh

Init == InboundInit /\ outbox = <<>> /\ SendFresh /\ MergeUnused


\* No run of either direction is in progress and the budget of runs is not used up.
CanStart ==
    /\ pc \in {"idle", "failed"}
    /\ spc \in {"idle", "failed"}
    /\ runs + sends < MaxRuns

\* ------------------------------------------------------------- actions
\* Lines 94-137: the log is opened, the session established, the marker read.
Connect ==
    /\ CanStart
    /\ runs' = runs + 1
    /\ log' = open_log(log)
    /\ pc' = "processing"
    /\ i' = 1
    /\ latest_file_time' = marker                \* lines 131-133
    /\ new_latest_file_time' = <<>>
    /\ g' = EmptyG
    /\ added_base' = {}
    /\ lfp' = <<>>
    /\ last' = Nothing
    /\ writes' = 0
    /\ batch' = <<>>
    /\ session' = "open"                         \* lines 114-116
    /\ UNCHANGED <<cfg, remote, marker, prev, sendvars, mergevars>>

\* Variant of the failed connect that recreates the marker file.
ConnectFails_TouchesMarker ==
    /\ CanStart
    /\ runs' = runs + 1
    /\ log' = open_log(log)
    /\ pc' = "failed"
    /\ prev' = Ended("failed")
    /\ last' = [Nothing EXCEPT !.outcome = "ConnectionError"]
    /\ writes' = 0
    /\ batch' = <<>>
    /\ session' = "none"
    /\ marker' = <<>>
    /\ UNCHANGED <<cfg, remote, i, latest_file_time, new_latest_file_time,
                   g, added_base, lfp, sendvars, mergevars>>

\* Lines 114-115: transport.connect raises; the run ends there.
ConnectFails ==
    /\ CanStart
    /\ runs' = runs + 1
    /\ log' = open_log(log)
    /\ pc' = "failed"
    /\ prev' = Ended("failed")
    /\ last' = [Nothing EXCEPT !.outcome = "ConnectionError"]
    /\ writes' = 0
    /\ batch' = <<>>
    /\ session' = "none"
    /\ UNCHANGED <<cfg, remote, marker, i, latest_file_time, new_latest_file_time,
                   g, added_base, lfp, sendvars, mergevars>>

\* Lines 121-125: from_transport gave no client; main returns.
NoSftpClient ==
    /\ CanStart
    /\ runs' = runs + 1
    /\ log' = open_log(log)
    /\ pc' = "idle"
    /\ prev' = Ended("no_sftp")
    /\ last' = [Nothing EXCEPT !.outcome = "no_sftp"]
    /\ writes' = 0
    /\ batch' = <<>>
    /\ session' = "open"                 \* the transport is connected and left so
    /\ UNCHANGED <<cfg, remote, marker, i, latest_file_time, new_latest_file_time,
                   g, added_base, lfp, sendvars, mergevars>>

InLoop == pc = "processing" /\ i <= Len(remote)

\* Lines 140-152: an entry not newer than the watermark is passed over.
SkipEntry ==
    /\ InLoop
    /\ NotNewer(latest_file_time, remote[i].st_mtime)
    /\ i' = i + 1
    /\ last' = [Nothing EXCEPT !.file_name = remote[i].filename, !.outcome = "skipped"]
    /\ UNCHANGED <<cfg, remote, marker, log, pc, runs, prev, latest_file_time,
                   new_latest_file_time, g, added_base, lfp, writes, batch, session,
                   sendvars, mergevars>>

\* The process ends with an exception: its variables are gone.
Abort(file_name, outcome, rendered) ==
    /\ pc' = "failed"
    /\ prev' = Ended("failed")
    /\ g' = EmptyG
    /\ added_base' = {}
    /\ lfp' = <<>>
    /\ last' = [Nothing EXCEPT !.file_name = file_name, !.outcome = outcome,
                               !.rendered = rendered]
    /\ UNCHANGED <<cfg, remote, marker, log, runs, i, latest_file_time,
                   new_latest_file_time, writes, batch, session, sendvars, mergevars>>

\* Lines 154-243: the loop body raises KeyError or ValueError before the download.
EntryRaises ==
    /\ InLoop
    /\ ~NotNewer(latest_file_time, remote[i].st_mtime)
    /\ LET s == resolve(cfg, remote[i].filename, g, added_base, lfp)
       IN  /\ s.err # ""
           /\ Abort(remote[i].filename, s.err, s.rendered)

\* Line 243: sftp.get raises; nothing catches it.
TransferFails ==
    /\ InLoop
    /\ ~NotNewer(latest_file_time, remote[i].st_mtime)
    /\ LET s == resolve(cfg, remote[i].filename, g, added_base, lfp)
       IN  /\ s.err = ""
           /\ Abort(remote[i].filename, "TransferError", s.rendered)

\* Lines 154-288: a retained entry is downloaded, logged and possibly imported.
ProcessEntry ==
    /\ InLoop
    /\ ~NotNewer(latest_file_time, remote[i].st_mtime)
    /\ LET file_name == remote[i].filename
           file_datetime == remote[i].st_mtime
           s == resolve(cfg, file_name, g, added_base, lfp)
       IN  /\ s.err = ""
           /\ \E exit \in {0, 1} :
                /\ s.import_cmd = <<>> => exit = 0
                /\ log' = log \o <<Row(file_name, s.lfp[1], file_datetime, "Downloaded")>>
                              \o (IF s.import_cmd # <<>>
                                  THEN import_rows(exit, file_name, s.lfp[1], file_datetime)
                                  ELSE <<>>)
                /\ last' = [file_name |-> file_name, outcome |-> "downloaded",
                            rendered |-> s.rendered, get |-> s.lfp,
                            import |-> IF s.import_cmd # <<>>
                                       THEN <<[entry |-> s.import_cmd[1].entry,
                                               fn |-> s.import_cmd[1].fn,
                                               exit |-> exit]>>
                                       ELSE <<>>]
           /\ new_latest_file_time' = update_latest(new_latest_file_time, file_datetime)
           /\ g' = s.g
           /\ added_base' = s.base
           /\ lfp' = s.lfp
           /\ i' = i + 1
           /\ batch' = Append(batch, remote[i])
           /\ UNCHANGED <<cfg, remote, marker, pc, runs, prev, latest_file_time,
                          writes, session, sendvars, mergevars>>

\* Variant of the commit test that touches the marker after every run.
commit_write_Always(new_latest) == TRUE

\* Line 290: "if new_latest_file_time is not None".
commit_write(new_latest) == new_latest # <<>>

\* Lines 290-295: the marker is touched when the batch was not empty; the
\* log handle is closed, the transport is not.
Commit ==
    /\ pc = "processing"
    /\ i > Len(remote)
    /\ marker' = IF commit_write(new_latest_file_time) THEN new_latest_file_time ELSE marker
    /\ writes' = IF commit_write(new_latest_file_time) THEN writes + 1 ELSE writes
    /\ pc' = "idle"
    /\ prev' = Ended("completed")
    /\ g' = EmptyG
    /\ added_base' = {}
    /\ lfp' = <<>>
    /\ UNCHANGED <<cfg, remote, log, runs, i, latest_file_time, new_latest_file_time,
                   last, batch, session, sendvars, mergevars>>

\* Between runs the remote side replaces a file: its modification time changes.
RemoteTouch ==
    /\ CanStart
    /\ runs >= 1
    /\ \E k \in 1..Len(remote), t \in 1..MaxTime :
         /\ t # remote[k].st_mtime
         /\ remote' = [remote EXCEPT ![k].st_mtime = t]
    /\ UNCHANGED <<cfg, marker, log, pc, runs, prev, i, latest_file_time,
                   new_latest_file_time, g, added_base, lfp, last, writes, batch,
                   session, sendvars, mergevars>>

\* Between runs the remote side publishes a further file.
RemoteArrive ==
    /\ CanStart
    /\ runs >= 1
    /\ Len(remote) < MaxFiles
    /\ \E e \in Entries :
         /\ \A k \in 1..Len(remote) : remote[k].filename # e.filename
         /\ remote' = Append(remote, e)
    /\ UNCHANGED <<cfg, marker, log, pc, runs, prev, i, latest_file_time,
                   new_latest_file_time, g, added_base, lfp, last, writes, batch,
                   session, sendvars, mergevars>>

RunStep ==
    \/ Connect
    \/ ConnectFails
    \/ NoSftpClient
    \/ SkipEntry
    \/ EntryRaises
    \/ TransferFails
    \/ ProcessEntry
    \/ Commit

Next ==
    \/ RunStep
    \/ RemoteTouch
    \/ RemoteArrive

Spec == Init /\ [][Next]_vars

\* The same runs against a remote listing that never changes.
SpecStable == Init /\ [][RunStep]_vars

\* ------------------------------------------------------ outbound actions
\* What an outbound step leaves alone on the inbound side.
InboundIdle == UNCHANGED <<inboundvars, mergevars>>

\* Lines 97-101: nothing in the send directory; main returns before the log
\* is opened and before any connection.
SendNothing ==
    /\ CanStart
    /\ outbox = <<>>
    /\ sends' = sends + 1
    /\ slast' = [NothingSent EXCEPT !.outcome = "nothing"]
    /\ UNCHANGED <<outbox, archive, spc, si, files_to_send, log, session>>
    /\ InboundIdle

\* Lines 97-123: snapshot of the send directory, log opened, session set up.
SendConnect ==
    /\ CanStart
    /\ outbox # <<>>
    /\ sends' = sends + 1
    /\ files_to_send' = outbox
    /\ log' = open_send_log(log)
    /\ session' = "open"
    /\ spc' = "sending"
    /\ si' = 1
    /\ slast' = NothingSent
    /\ UNCHANGED <<outbox, archive>>
    /\ InboundIdle

\* Lines 114-115: transport.connect raises.
SendConnectFails ==
    /\ CanStart
    /\ outbox # <<>>
    /\ sends' = sends + 1
    /\ files_to_send' = outbox
    /\ log' = open_send_log(log)
    /\ session' = "none"
    /\ spc' = "failed"
    /\ slast' = [NothingSent EXCEPT !.outcome = "ConnectionError"]
    /\ UNCHANGED <<outbox, archive, si>>
    /\ InboundIdle

\* Lines 119-123: from_transport gave no client; main returns.
SendNoSftpClient ==
    /\ CanStart
    /\ outbox # <<>>
    /\ sends' = sends + 1
    /\ files_to_send' = outbox
    /\ log' = open_send_log(log)
    /\ session' = "open"
    /\ slast' = [NothingSent EXCEPT !.outcome = "no_sftp"]
    /\ UNCHANGED <<outbox, archive, spc, si>>
    /\ InboundIdle

Sending == spc = "sending" /\ si <= Len(files_to_send)

\* Lines 134-143: the Uploaded row of a file.
UploadedRow(file) ==
    Row(file.filename, RemotePath(file.filename), file.st_mtime, "Uploaded")

\* The send directory without the file of that name.
Without(q, name) ==
    LET Keep(f) == f.filename # name
    IN  SelectSeq(q, Keep)

\* Lines 125-148: put, Uploaded row, move into the archive.
SendFile ==
    /\ Sending
    /\ LET file == files_to_send[si]
       IN  /\ log' = Append(log, UploadedRow(file))
           /\ outbox' = Without(outbox, file.filename)
           /\ archive' = archive \cup {archive_file_name(file.filename, sends)}
           /\ slast' = [file_name |-> file.filename, outcome |-> "uploaded"]
    /\ si' = si + 1
    /\ UNCHANGED <<spc, sends, files_to_send, session>>
    /\ InboundIdle

\* Line 129: sftp.put raises; nothing catches it.
SendPutFails ==
    /\ Sending
    /\ spc' = "failed"
    /\ slast' = [file_name |-> files_to_send[si].filename, outcome |-> "PutError"]
    /\ UNCHANGED <<outbox, archive, sends, si, files_to_send, log, session>>
    /\ InboundIdle

\* Lines 129-148: the put succeeded and its row is written, then
\* local_file.rename raises (archive directory missing or on another device).
SendArchiveFails ==
    /\ Sending
    /\ log' = Append(log, UploadedRow(files_to_send[si]))
    /\ spc' = "failed"
    /\ slast' = [file_name |-> files_to_send[si].filename, outcome |-> "ArchiveError"]
    /\ UNCHANGED <<outbox, archive, sends, si, files_to_send, session>>
    /\ InboundIdle

\* Lines 150-153: log handle, SFTP client and transport are closed.
SendDone ==
    /\ spc = "sending"
    /\ si > Len(files_to_send)
    /\ spc' = "idle"
    /\ session' = "closed"
    /\ slast' = [slast EXCEPT !.outcome = "done"]
    /\ UNCHANGED <<outbox, archive, sends, si, files_to_send, log>>
    /\ InboundIdle

SendStep ==
    \/ SendNothing
    \/ SendConnect
    \/ SendConnectFails
    \/ SendNoSftpClient
    \/ SendFile
    \/ SendPutFails
    \/ SendArchiveFails
    \/ SendDone

\* Inbound and outbound runs one after the other, in any order.
InitBoth ==
    /\ cfg \in {c \in Catalogs : Len(c) <= MaxRulesBoth}
    /\ remote \in Listings
    /\ InboundFresh
    /\ outbox \in Outboxes
    /\ SendFresh
    /\ MergeUnused

NextBoth == RunStep \/ SendStep

SpecBoth == InitBoth /\ [][NextBoth]_vars

\* ------------------------------------------- merge_dicts (support_scripts.py)
\* A YAML value is a scalar, a list or a map. All three are records of one
\* shape: t is the kind, s the text of a scalar or list, d the items of a map.
Scalar(text) == [t |-> "scalar", s |-> text, d |-> EmptyG]

List(text) == [t |-> "list", s |-> text, d |-> EmptyG]

Dict(items) == [t |-> "dict", s |-> "", d |-> items]

\* A call that raised.
Error(kind) == [t |-> "error", s |-> kind, d |-> EmptyG]

TopKeys == {"nsc", "log"}
SubKeys == {"host", "port"}

Leaves == {Scalar("1"), Scalar("2"), List("[1]")}

Maps(keys, values) == UNION {[D -> values] : D \in SUBSET keys}

\* Maps of leaves, and configurations whose values are leaves or such maps.
SubMaps == {Dict(items) : items \in Maps(SubKeys, Leaves)}

Configs == {Dict(items) : items \in Maps(TopKeys, Leaves \cup SubMaps)}

\* Lines 21-28. cfg1.copy() raises AttributeError on a scalar; on a list the
\* copy succeeds and the first item of cfg2 raises TypeError at merged[key].
\* When several keys raise, the error of one of them is the outcome.
RECURSIVE merge_dicts(_, _)
merge_dicts(a, b) ==
    IF a.t = "scalar" THEN Error("AttributeError")
    ELSE IF a.t = "list" THEN (IF DOMAIN b.d = {} THEN a ELSE Error("TypeError"))
    ELSE LET item(key) ==
                 IF key \notin DOMAIN b.d THEN a.d[key]
                 ELSE IF b.d[key].t = "dict" /\ key \in DOMAIN a.d
                      THEN merge_dicts(a.d[key], b.d[key])
                      ELSE b.d[key]
             raised == {key \in DOMAIN b.d : item(key).t = "error"}
         IN  IF raised # {}
             THEN item(CHOOSE key \in raised : TRUE)
             ELSE Dict([key \in (DOMAIN a.d) \cup (DOMAIN b.d) |-> item(key)])

\* get_nsc_files.py lines 75-89: the two configuration files, loaded.
InitMerge ==
    /\ cfg = <<>>
    /\ remote = <<>>
    /\ InboundFresh
    /\ outbox = <<>>
    /\ SendFresh
    /\ cfg1 \in Configs
    /\ cfg2 \in Configs
    /\ merged = <<>>

\* get_nsc_files.py line 89: cfg = merge_dicts(ccdw_cfg, nsc_cfg). The
\* function assigns only into its copy, so its arguments stay as they were.
Merge ==
    /\ merged = <<>>
    /\ merged' = <<merge_dicts(cfg1, cfg2)>>
    /\ UNCHANGED <<cfg1, cfg2, inboundvars, log, session, sendvars>>

SpecMerge == InitMerge /\ [][Merge]_vars

\* ===================================================== properties
\* Rows appended to the audit log by a step.
NewRows == SubSeq(log', Len(log) + 1, Len(log'))

DownloadedRows == {k \in 1..Len(log) : log[k].status = "Downloaded"}

\* The last loop iteration got as far as handling a retained entry.
Attempted == last.outcome \in {"downloaded", "TransferError", "KeyError", "ValueError"}

NoRunInProgress == pc \in {"idle", "failed"}

\* ---- what the specification says the rule matcher does (sections 4.2, 4.3)
\* The name conforms to the grammar and its embedded timestamp parses.
Conforms(file_name) ==
    GrammarMatch(file_name) /\ strptime_ok(named_groups(file_name)["subdatetime"][1])

ModeAccepts(rule, file_name) ==
    ~rule.has_mode \/ named_groups(file_name)["nscmode"] = <<rule.mode>>

PatternAccepts(rule, file_name) ==
    ~rule.has_pattern \/ re_match(rule.pattern, named_groups(file_name)["fn"]).ok

RuleMatches(rule, file_name) ==
    Conforms(file_name) /\ ModeAccepts(rule, file_name) /\ PatternAccepts(rule, file_name)

\* Index of the first matching rule in declaration order, 0 when there is none.
FirstMatch(catalog, file_name) ==
    LET hits == {k \in 1..Len(catalog) : RuleMatches(catalog[k], file_name)}
    IN  IF hits = {} THEN 0 ELSE CHOOSE k \in hits : \A j \in hits : k <= j

\* The template of a matching rule rendered from the entry's own fields.
RenderedBy(rule, file_name) ==
    LET d == named_groups(file_name)
        captured == IF rule.has_pattern THEN re_match(rule.pattern, d["fn"]).groups ELSE EmptyG
    IN  format(rule.replace, Override(d, captured))

\* ------------------------------------------------------------------ C1
\* C1: watermark monotonicity. Over any sequence of runs, completed or
\* aborted, against any listings, the stored watermark is never removed and
\* never decreases, and the watermark a run works with is the stored one, so
\* the value read at the start of run N+1 is at least the one written by run N.
C1_WatermarkMonotonic ==
    [][ /\ marker # <<>> => (marker' # <<>> /\ marker'[1] >= marker[1])
        /\ pc' = "processing" => latest_file_time' = marker' ]_vars

\* A second run has read a watermark and committed a greater one.
C1_Witness ==
    /\ runs = 2
    /\ pc = "idle"
    /\ prev.status = "completed"
    /\ latest_file_time # <<>>
    /\ marker # <<>>
    /\ marker[1] > latest_file_time[1]

\* ------------------------------------------------------------------ C2
\* The run in progress follows a completed run and sees the same listing.
Rerun == pc = "processing" /\ prev.status = "completed" /\ prev.listing = remote

\* C2: idempotent re-run. A run that follows a completed run against the
\* unchanged listing retains nothing: it downloads nothing, appends no audit
\* row, dispatches no import, keeps its batch maximum empty and leaves the
\* watermark as it is.
C2_IdempotentRerun ==
    [][ Rerun => /\ new_latest_file_time = <<>>
                 /\ new_latest_file_time' = <<>>
                 /\ log' = log
                 /\ marker' = marker
                 /\ last'.get = <<>>
                 /\ last'.import = <<>>
                 /\ pc' # "failed" ]_vars

\* A re-run has passed over a listing of at least two entries.
C2_Witness ==
    /\ Rerun
    /\ Len(remote) >= 2
    /\ i > Len(remote)
    /\ marker # <<>>
    /\ last.outcome = "skipped"

\* ------------------------------------------------------------------ C3
\* C3: rule precedence. Every downloaded entry that some rule matches gets
\* the local name rendered from the first matching rule in declaration order,
\* whatever rules are declared after it. (Stated for a first match that
\* declares its mode filter; rules without one are the subject of C17.)
C3_FirstMatchWins ==
    LET m == FirstMatch(cfg, last.file_name)
    IN  (last.outcome = "downloaded" /\ m # 0 /\ cfg[m].has_mode)
            => last.get[1].name = RenderedBy(cfg[m], last.file_name)

\* ------------------------------------------------------------------ C4
\* The rule's mode filter matches the entry but its pattern does not.
PatternMiss(rule, file_name) ==
    /\ Conforms(file_name)
    /\ rule.has_mode
    /\ named_groups(file_name)["nscmode"] = <<rule.mode>>
    /\ rule.has_pattern
    /\ ~re_match(rule.pattern, named_groups(file_name)["fn"]).ok

\* C4: pattern-miss fallthrough. A rule whose mode matches and whose pattern
\* misses never has its template rendered, the entry does not end in an
\* exception, and when the first matching rule is a later rule with the mode
\* and no pattern, the download goes to the name rendered from that rule.
C4_PatternMissFallthrough ==
    \A k \in 1..Len(cfg) :
        (Attempted /\ PatternMiss(cfg[k], last.file_name)) =>
            /\ \A x \in 1..Len(last.rendered) : last.rendered[x] # cfg[k].name
            /\ last.outcome \notin {"KeyError", "ValueError"}
            /\ LET m == FirstMatch(cfg, last.file_name)
               IN  (last.outcome = "downloaded" /\ m > k /\ ~cfg[m].has_pattern)
                      => last.get[1].name = RenderedBy(cfg[m], last.file_name)

\* ------------------------------------------------------------------ C5
\* C5: identity fallback. A retained entry that no rule matches (the catalog
\* may be empty) is downloaded to the raw remote name, and no import is
\* dispatched for it.
C5_IdentityFallback ==
    (Attempted /\ FirstMatch(cfg, last.file_name) = 0) =>
        /\ last.outcome \in {"downloaded", "TransferError"}
        /\ last.outcome = "downloaded" =>
              (last.get = <<LocalPath(last.file_name)>> /\ last.import = <<>>)

\* ------------------------------------------------------------------ C6
\* C6: decomposer totality. A retained entry whose name does not conform to
\* the grammar never makes the run raise; no rule is applied to it and it is
\* downloaded under its original name.
C6_DecomposerTotality ==
    (Attempted /\ ~Conforms(last.file_name)) =>
        /\ last.outcome \in {"downloaded", "TransferError"}
        /\ last.rendered = <<>>
        /\ last.outcome = "downloaded" => last.get = <<LocalPath(last.file_name)>>

\* ------------------------------------------------------------------ C7
\* C7: import gating. An import is dispatched only for an entry of the
\* importable type and only in the name of a rule that matched the entry and
\* has its import flag set.
C7_ImportGating ==
    last.import # <<>> =>
        /\ Conforms(last.file_name)
        /\ named_groups(last.file_name)["nsctype"] = <<ImportType>>
        /\ \E k \in 1..Len(cfg) :
              /\ cfg[k].name = last.import[1].entry
              /\ cfg[k].import
              /\ RuleMatches(cfg[k], last.file_name)

\* ------------------------------------------------------------------ C8
\* C8: transfer-error isolation. A transfer error on one entry does not end
\* the run: the loop goes on with the next entry.
C8_TransferErrorIsolated ==
    last.outcome = "TransferError" => (pc = "processing" /\ prev.status # "failed")

\* ------------------------------------------------------------------ C9
ImportFailed(l) == l.import # <<>> /\ l.import[1].exit # 0

\* C9: import-failure isolation. In the step that handles an entry, an
\* Imported row is appended exactly when an import was dispatched and exited
\* 0; when the import exits non-zero the step appends the Downloaded row
\* alone, the run stays in its loop at the next entry with this entry counted
\* in the batch maximum, and the run's commit writes that maximum to the
\* watermark.
C9_ImportFailureIsolated ==
    [][ /\ (pc = "processing" /\ log' # log) =>
              /\ (\E k \in 1..Len(NewRows) : NewRows[k].status = "Imported")
                    <=> (last'.import # <<>> /\ last'.import[1].exit = 0)
              /\ ImportFailed(last') =>
                    /\ NewRows = <<Row(remote[i].filename, last'.get[1],
                                       remote[i].st_mtime, "Downloaded")>>
                    /\ pc' = "processing"
                    /\ i' = i + 1
                    /\ new_latest_file_time' # <<>>
                    /\ new_latest_file_time'[1] >= remote[i].st_mtime
        /\ (pc = "processing" /\ pc' = "idle" /\ new_latest_file_time # <<>>) =>
              marker' = new_latest_file_time ]_vars

\* A run whose last entry's import exited non-zero has committed the watermark.
C9_Witness ==
    /\ pc = "idle"
    /\ prev.status = "completed"
    /\ last.outcome = "downloaded"
    /\ ImportFailed(last)
    /\ marker # <<>>
    /\ \E k \in DownloadedRows : log[k].nsc_file_name = last.file_name
    /\ \A k \in 1..Len(log) : log[k].status # "Imported"

\* ----------------------------------------------------------------- C10
\* C10: exactly-once-effective processing. Against a listing that does not
\* change, no entry gets two Downloaded rows, and whenever no run is in
\* progress every entry with a Downloaded row has a modification time at or
\* below the stored watermark.
C10_ExactlyOnce ==
    /\ \A x, y \in DownloadedRows :
          log[x].nsc_file_name = log[y].nsc_file_name => x = y
    /\ NoRunInProgress =>
          \A x \in DownloadedRows :
              \A k \in 1..Len(remote) :
                  remote[k].filename = log[x].nsc_file_name =>
                      (marker # <<>> /\ remote[k].st_mtime <= marker[1])

\* ----------------------------------------------------------------- C11
\* C11: batch-level commit. Within one run the watermark store is written at
\* most once, and only by the step that follows the last entry of the listing;
\* that step writes it only when the run downloaded at least one entry. No
\* step inside the loop, and no run with an empty batch, changes the store.
C11_BatchLevelCommit ==
    [][ (marker' # marker \/ writes' > writes) =>
            /\ pc = "processing"
            /\ i > Len(remote)
            /\ pc' = "idle"
            /\ batch # <<>>
            /\ writes = 0
            /\ writes' = 1 ]_vars

\* A run has downloaded two entries and written the watermark once.
C11_Witness ==
    /\ pc = "idle"
    /\ prev.status = "completed"
    /\ Len(batch) = 2
    /\ writes = 1
    /\ marker # <<>>

\* ----------------------------------------------------------------- C12
\* C12: connection failure leaves the watermark untouched. A run that ends
\* before its loop (connect error, or no SFTP client) writes nothing to the
\* watermark store, downloads nothing, dispatches no import and appends no
\* entry row to the audit log: the stored watermark after the run equals the
\* one before it.
C12_ConnectionFailureFrame ==
    [][ (runs' = runs + 1 /\ pc' # "processing") =>
            /\ last'.outcome \in {"ConnectionError", "no_sftp"}
            /\ marker' = marker
            /\ writes' = 0
            /\ batch' = <<>>
            /\ last'.get = <<>>
            /\ last'.import = <<>>
            /\ \A k \in 1..Len(NewRows) : NewRows[k] = HeaderRow ]_vars

\* A connect error has ended a run that started with a stored watermark.
C12_Witness ==
    /\ pc = "failed"
    /\ last.outcome = "ConnectionError"
    /\ marker # <<>>
    /\ runs = 2

\* ----------------------------------------------------------------- C13
\* An entry is new when there is no watermark or its time is strictly greater.
Newer(entry, watermark) == watermark = <<>> \/ entry.st_mtime > watermark[1]

\* The new entries of a listing, in listing order.
Retained(listing, watermark) ==
    LET Test(entry) == Newer(entry, watermark)
    IN  SelectSeq(listing, Test)

\* C13: new-only filter. At every point of a run the entries it has processed
\* are, in listing order, exactly the entries it has gone past whose
\* modification time is strictly greater than the watermark read at run start
\* (all of them when there was no watermark); a run that reaches the end of
\* its listing has processed exactly the new entries of the whole listing.
C13_NewOnlyFilter ==
    /\ pc = "processing" =>
          batch = Retained(SubSeq(remote, 1, i - 1), latest_file_time)
    /\ (pc = "idle" /\ prev.status = "completed") =>
          batch = Retained(prev.listing, latest_file_time)

\* A run has passed over an entry whose time equals the watermark it read and
\* has processed a newer one.
C13_Witness ==
    /\ pc = "idle"
    /\ prev.status = "completed"
    /\ latest_file_time # <<>>
    /\ Len(batch) = 1
    /\ batch[1].st_mtime > latest_file_time[1]
    /\ \E k \in 1..Len(prev.listing) : prev.listing[k].st_mtime = latest_file_time[1]

\* ----------------------------------------------------------------- C14
\* The last run got into its loop and has ended, by reaching the end of its
\* listing or on a transfer that failed.
LoopRunEnded ==
    /\ NoRunInProgress
    /\ runs >= 1
    /\ last.outcome \in {"none", "skipped", "downloaded", "TransferError"}

\* C14: watermark value. After a run that retained at least one entry, the
\* stored watermark is the maximum modification time over the entries of the
\* listing that were new to that run, whatever the transfer or import outcome
\* of each entry.
C14_WatermarkIsBatchMax ==
    LET kept == Retained(prev.listing, latest_file_time)
    IN  (LoopRunEnded /\ kept # <<>>) =>
            marker = <<Max({kept[k].st_mtime : k \in 1..Len(kept)})>>

\* ----------------------------------------------------------------- C15
\* The file of that name has left the send directory for the archive.
Archived(name) ==
    /\ \A k \in 1..Len(outbox) : outbox[k].filename # name
    /\ \E a \in archive : /\ a.stem = SubSeq(name, 1, Len(name) - 1)
                           /\ a.suffix = name[Len(name)]

UploadRecorded(name) ==
    \E k \in 1..Len(log) : log[k].status = "Uploaded" /\ log[k].nsc_file_name = name

\* C15: upload/archive consistency. In every state of the outbound run, the
\* states left by a failed put or a failed archive move included, a file has
\* been moved from the send directory to the archive if and only if an
\* Uploaded row has been appended for it.
C15_UploadArchiveConsistent ==
    \A name \in SendNames : Archived(name) <=> UploadRecorded(name)

\* ----------------------------------------------------------------- C16
\* C16: session lifecycle. When a run that established a transport session
\* has ended, the session has been closed.
C16_SessionClosed ==
    (pc = "idle" /\ spc = "idle" /\ prev.status = "completed" /\ runs >= 1 /\ sends = 0)
        => session = "closed"

\* ----------------------------------------------------------------- C17
\* C17: rules without a mode filter. When the first matching rule of a
\* downloaded entry declares no mode filter, and no later rule matches, the
\* entry's local name is that rule's template rendered from the entry's fields.
C17_ModelessRuleApplies ==
    LET m == FirstMatch(cfg, last.file_name)
    IN  ( /\ last.outcome = "downloaded"
          /\ m # 0
          /\ ~cfg[m].has_mode
          /\ \A k \in (m + 1)..Len(cfg) : ~RuleMatches(cfg[k], last.file_name) )
            => last.get[1].name = RenderedBy(cfg[m], last.file_name)

\* ----------------------------------------------------------------- C18
\* Number of rows with that status.
Count(rows, status) == Cardinality({k \in 1..Len(rows) : rows[k].status = status})

\* The step downloaded an entry.
Downloads == Len(batch') = Len(batch) + 1

\* The step put a file on the remote side.
Uploads == slast' # slast /\ slast'.outcome \in {"uploaded", "ArchiveError"}

\* C18: the audit log is append-only. Across inbound and outbound runs in any
\* order, every step leaves the rows already in the log as they are and in
\* place, adding rows only at the end; a header row is added only to a log
\* that did not exist, as its first row; a download adds exactly one
\* Downloaded row, an import that exited 0 exactly one Imported row, an upload
\* exactly one Uploaded row, and nothing else adds a row.
C18_AppendOnlyLog ==
    [][ /\ Len(log') >= Len(log)
        /\ SubSeq(log', 1, Len(log)) = log
        /\ Count(NewRows, "status") = IF log = <<>> /\ log' # <<>> THEN 1 ELSE 0
        /\ log' # <<>> => log'[1].status = "status"
        /\ Count(NewRows, "Downloaded") = IF Downloads THEN 1 ELSE 0
        /\ Count(NewRows, "Imported") =
              IF Downloads /\ last'.import # <<>> /\ last'.import[1].exit = 0 THEN 1 ELSE 0
        /\ Count(NewRows, "Uploaded") = IF Uploads THEN 1 ELSE 0
        /\ \A k \in 1..Len(NewRows) :
              NewRows[k].status \in {"status", "Downloaded", "Imported", "Uploaded"} ]_vars

\* The log holds one header and a row of each kind, written by an inbound
\* and an outbound run.
C18_Witness ==
    /\ runs = 1
    /\ sends = 1
    /\ Count(log, "status") = 1
    /\ Count(log, "Downloaded") >= 1
    /\ Count(log, "Imported") >= 1
    /\ Count(log, "Uploaded") >= 1

\* ----------------------------------------------------------------- C19
\* The deep merge the specification describes: keys only in A keep A's value,
\* a scalar or list of B replaces A's value, a map of B is merged with A's
\* value when that is a map and replaces it otherwise.
RECURSIVE DeepMerge(_, _)
DeepMerge(a, b) ==
    Dict([key \in (DOMAIN a.d) \cup (DOMAIN b.d) |->
            IF key \notin DOMAIN b.d THEN a.d[key]
            ELSE IF b.d[key].t = "dict" /\ key \in DOMAIN a.d /\ a.d[key].t = "dict"
                 THEN DeepMerge(a.d[key], b.d[key])
                 ELSE b.d[key]])

\* C19: config deep-merge. For any two configuration maps, merge_dicts returns
\* without error, and what it returns is the deep merge of the two.
C19_DeepMerge ==
    merged # <<>> => (merged[1].t # "error" /\ merged[1] = DeepMerge(cfg1, cfg2))

\* ----------------------------------------------------------------- C20
\* C20: import targets the downloaded file. Whenever an import was dispatched
\* for an entry, the path passed to it is the path the entry was downloaded to.
C20_ImportTargetsDownload ==
    last.import # <<>> => last.import[1].fn = last.get[1]

\* ----------------------------------------------------------------- C21
\* What the loop body does with an entry when no entry came before it in the
\* run: the process-wide variables hold no field and no path.
Alone(file_name) == resolve(cfg, file_name, EmptyG, {}, <<>>)

\* C21: no cross-file field leakage. Whatever entries the run handled before
\* it, a retained entry ends as it would have ended alone: the same exception
\* or none, and when it is downloaded the same download path, the same import
\* decision and the same import path.
C21_NoCrossFileLeak ==
    last.outcome \in {"downloaded", "KeyError", "ValueError"} =>
        LET s == Alone(last.file_name)
        IN  /\ last.outcome \in {"KeyError", "ValueError"} => s.err = last.outcome
            /\ last.outcome = "downloaded" => s.err = ""
            /\ (last.outcome = "downloaded" /\ s.err = "") =>
                  /\ last.get = s.lfp
                  /\ (last.import = <<>>) <=> (s.import_cmd = <<>>)
                  /\ (last.import # <<>> /\ s.import_cmd # <<>>) =>
                        /\ last.import[1].entry = s.import_cmd[1].entry
                        /\ last.import[1].fn = s.import_cmd[1].fn

====
